---- MODULE Spec2Model ----
(***************************************************************************)
(* nnUNetTrainerMultiTask: the multi-task (segmentation + classification)  *)
(* trainer of nnunetv2/training/nnUNetTrainer/nnUNetTrainerMultiTask.py.   *)
(*                                                                         *)
(* Tensors are modelled by what the trainer reads of them: a segmentation  *)
(* output is a sequence of pixels, each a sequence of per-channel logits;  *)
(* a classification output is one sequence of logits per sample.  Real     *)
(* numbers are exact fractions <<n, d>> in lowest terms, d > 0; the        *)
(* not-a-number of numpy is <<0, 0>>.                                      *)
(***************************************************************************)
EXTENDS Integers, Sequences, FiniteSets, TLC

VARIABLES
    is_ddp,          \* self.is_ddp: the run is distributed over the workers
    has_regions,     \* self.label_manager.has_regions
    has_ignore,      \* self.label_manager.has_ignore_label
    current_epoch,   \* per worker: self.current_epoch
    loss_cls_weight, \* per worker: self.loss.cls_weight, a fraction
    pc,              \* per worker: where its control is
    steps_left,      \* per worker: iterations left in the running loop
    epochs_left,     \* per worker: epochs this process still runs
    optimizer_steps, \* per worker: self.optimizer.step() calls so far
    train_returned,  \* per worker: train_step calls that returned
    last_call,       \* per worker: what the last handler call did
    val_data,        \* per worker: the batches validated this epoch
    val_outputs,     \* per worker: the list handed to on_validation_epoch_end
    pending,         \* per worker: the validation result held at the breakpoint
    calls,           \* per worker: the all_gather_object calls issued, in order
    acc,             \* per worker: the locals of on_validation_epoch_end
    summary,         \* per worker: what on_validation_epoch_end returned
    metric_in,       \* aggregated counts handed to the metric formulas
    metric_out,      \* what the metric formulas made of them
    build_in,        \* the arguments of build_network_architecture
    build_out        \* what build_network_architecture did with them

vars == <<is_ddp, has_regions, has_ignore, current_epoch, loss_cls_weight, pc,
          steps_left, epochs_left, optimizer_steps, train_returned, last_call,
          val_data, val_outputs, pending, calls, acc, summary, metric_in,
          metric_out, build_in, build_out>>

----------------------------------------------------------------------------
(* Bounds of the model. *)

\* num_iterations_per_epoch and num_val_iterations_per_epoch of the run.
MaxTrainSteps == 2
MaxValSteps == 2
\* Epochs a process runs before the model stops following it.
MaxEpochsRun == 1
\* The metric formulas on their own: at most MaxCls classes, and counts that
\* add up to at most MaxSum.
MaxCls == 2
MaxSum == 6

\* The largest number of input and of output channels of a network built.
MaxChannels == 2

(* Program constants. *)

RampEpochs == 100
ClsWeightNum == 1
ClsWeightDen == 2

WorldSize == 2

Workers == 0 .. (WorldSize - 1)

----------------------------------------------------------------------------
(* Exact arithmetic. *)

RECURSIVE Gcd(_, _)
Gcd(a, b) == IF b = 0 THEN a ELSE Gcd(b, a % b)

Abs(a) == IF a < 0 THEN -a ELSE a

NaN == <<0, 0>>

IsNaN(x) == x[2] = 0

Frac(n, d) ==
    IF d = 0 THEN NaN
    ELSE LET g == Gcd(Abs(n), Abs(d))
             s == IF d < 0 THEN -1 ELSE 1
         IN <<(s * n) \div g, (s * d) \div g>>

FInt(n) == <<n, 1>>

FAdd(x, y) ==
    IF IsNaN(x) \/ IsNaN(y) THEN NaN
    ELSE Frac(x[1] * y[2] + y[1] * x[2], x[2] * y[2])

FMul(x, y) ==
    IF IsNaN(x) \/ IsNaN(y) THEN NaN
    ELSE Frac(x[1] * y[1], x[2] * y[2])

\* numpy true division of two finite numbers: 0/0 is nan (a warning, no error).
\* The trainer never divides a non-zero count by zero: its denominators are
\* sums that contain the numerator.
FDiv(x, y) ==
    IF IsNaN(x) \/ IsNaN(y) \/ y[1] = 0 THEN NaN
    ELSE Frac(x[1] * y[2], x[2] * y[1])

RECURSIVE FSum(_)
FSum(s) == IF s = <<>> THEN FInt(0) ELSE FAdd(Head(s), FSum(Tail(s)))

RECURSIVE SumSeq(_)
SumSeq(s) == IF s = <<>> THEN 0 ELSE Head(s) + SumSeq(Tail(s))

Min(a, b) == IF a <= b THEN a ELSE b

----------------------------------------------------------------------------
(* The data a step works on.                                               *)
(*                                                                         *)
(* A pixel carries the network's logits for the three segmentation         *)
(* channels and its target: the label (IgnoreLabel where the dataset       *)
(* marks it ignored) for a label map, the region bits and the bit of the   *)
(* ignore channel for a region target.  A sample carries its pixels, the   *)
(* logits of the classification head and its class target.                 *)

IgnoreLabel == 3

Px(lg, lab, reg, ig) == [logits |-> lg, label |-> lab, regions |-> reg, ign |-> ig]

SampleA ==
    [pix |-> << Px(<<0, 2, 1>>, 1, <<0, 1, 0>>, 0),
                Px(<<1, 2, -1>>, 0, <<1, 0, 0>>, 0) >>,
     cls_logits |-> <<2, 1, 0>>, class_target |-> 0]

SampleB ==
    [pix |-> << Px(<<0, 1, 1>>, 2, <<0, 0, 1>>, 0),
                Px(<<-1, 0, 3>>, 2, <<0, 0, 1>>, 0) >>,
     cls_logits |-> <<0, 1, 1>>, class_target |-> 2]

SampleC ==
    [pix |-> << Px(<<2, 0, 0>>, 1, <<0, 1, 1>>, 0),
                Px(<<0, 0, 1>>, IgnoreLabel, <<0, 0, 0>>, 1) >>,
     cls_logits |-> <<0, 0, 1>>, class_target |-> 1]

SampleD ==
    [pix |-> << Px(<<1, 0, 0>>, 0, <<0, 0, 0>>, 0),
                Px(<<1, -1, -1>>, 0, <<0, 0, 0>>, 0) >>,
     cls_logits |-> <<1, 0, 0>>, class_target |-> 0]

\* A sample whose class target is not one of the class indices 0, 1, 2.
SampleE ==
    [pix |-> << Px(<<1, 0, 0>>, 0, <<0, 0, 0>>, 0),
                Px(<<1, -1, -1>>, 0, <<0, 0, 0>>, 0) >>,
     cls_logits |-> <<0, 2, 1>>, class_target |-> -100]

\* A batch is a sequence of samples.
AllBatches ==
    { <<SampleA>>, <<SampleB>>, <<SampleD>>, <<SampleE>>, <<SampleB, SampleC>> }

HasIgnoredPixel(batch) ==
    \E i \in DOMAIN batch : \E j \in DOMAIN batch[i].pix : batch[i].pix[j].ign = 1

\* A dataset without an ignore label has no ignored pixel.
Batches(ignore) == { b \in AllBatches : ignore \/ ~HasIgnoredPixel(b) }

(* What self.network(data) may return: a tensor, or a dict with the given  *)
(* keys.                                                                   *)
TensorOut == [isdict |-> FALSE, keys |-> {}]

DictOut(ks) == [isdict |-> TRUE, keys |-> ks]

NetworkOutputs ==
    { TensorOut,
      DictOut({"segmentation", "classification"}),
      DictOut({"seg", "cls"}),
      DictOut({"segmentation"}),
      DictOut({"segmentation", "classification", "features"}) }

(* What self.loss(...) may return: a mapping from names to loss tensors,   *)
(* each tensor with an identity and a value.                               *)
Tn(i, v) == [id |-> i, val |-> v]

\* The three entries of the loss contract and nothing else.
LossThree == [total_loss |-> Tn("t", 3), seg_loss |-> Tn("s", 2), cls_loss |-> Tn("c", 1)]

\* The total loss tensor also under the name 'loss'.
LossWithLoss ==
    [loss |-> Tn("t", 5), total_loss |-> Tn("t", 5), seg_loss |-> Tn("s", 1),
     cls_loss |-> Tn("c", 4)]

LossMappings == {LossThree, LossWithLoss}

TheRecord == DictOut({"segmentation", "classification"})

----------------------------------------------------------------------------
(* Tensor operations the steps use. *)

\* torch.argmax along the channel axis: the index (from 0) of the first maximum.
ArgMax(lg) ==
    (CHOOSE i \in DOMAIN lg :
        /\ \A j \in DOMAIN lg : lg[j] <= lg[i]
        /\ \A j \in DOMAIN lg : j < i => lg[j] < lg[i]) - 1

\* (torch.sigmoid(x) > 0.5).long(): sigmoid is above one half exactly for x > 0.
SigmoidAboveHalf(x) == IF x > 0 THEN 1 ELSE 0

RECURSIVE Flatten(_)
Flatten(ss) == IF ss = <<>> THEN <<>> ELSE Head(ss) \o Flatten(Tail(ss))

\* All pixels of the batch: the batch axis 0 and the spatial axes 2.. together.
BatchPixels(batch) == Flatten([i \in DOMAIN batch |-> batch[i].pix])

NumChannels(batch) == Len(BatchPixels(batch)[1].logits)

\* predicted_segmentation_onehot of one pixel, a 0/1 row over the channels.
PredictedOnehot(px, regions) ==
    IF regions
    THEN [c \in DOMAIN px.logits |-> SigmoidAboveHalf(px.logits[c])]
    ELSE [c \in DOMAIN px.logits |-> IF c - 1 = ArgMax(px.logits) THEN 1 ELSE 0]

\* The mask of one pixel: 0 where the pixel is ignored; 1 everywhere when no
\* ignore label is configured (mask = None).
PixelMask(px, regions, ignore) ==
    IF ~ignore THEN 1
    ELSE IF ~regions THEN (IF px.label # IgnoreLabel THEN 1 ELSE 0)
    ELSE 1 - px.ign

\* The target of one pixel as a 0/1 row over the channels: the one-hot of the
\* label (the ignore label set to 0 first), or the region bits without the
\* ignore channel.
TargetOnehot(px, regions, ignore) ==
    IF regions THEN px.regions
    ELSE LET lab == IF ignore /\ px.label = IgnoreLabel THEN 0 ELSE px.label
         IN [c \in DOMAIN px.logits |-> IF c - 1 = lab THEN 1 ELSE 0]

RECURSIVE SumOver(_, _, _)
SumOver(F(_), pixels, c) ==
    IF pixels = <<>> THEN 0 ELSE F(Head(pixels))[c] + SumOver(F, Tail(pixels), c)

\* get_tp_fp_fn_tn(net_output, gt, axes, mask): per channel, over all pixels.
GetTpFpFn(pixels, regions, ignore) ==
    LET n == Len(pixels[1].logits)
        Tp(px) == [c \in 1 .. n |->
                     PredictedOnehot(px, regions)[c] * TargetOnehot(px, regions, ignore)[c]
                       * PixelMask(px, regions, ignore)]
        Fp(px) == [c \in 1 .. n |->
                     PredictedOnehot(px, regions)[c]
                       * (1 - TargetOnehot(px, regions, ignore)[c])
                       * PixelMask(px, regions, ignore)]
        Fn(px) == [c \in 1 .. n |->
                     (1 - PredictedOnehot(px, regions)[c])
                       * TargetOnehot(px, regions, ignore)[c]
                       * PixelMask(px, regions, ignore)]
    IN [tp |-> [c \in 1 .. n |-> SumOver(Tp, pixels, c)],
        fp |-> [c \in 1 .. n |-> SumOver(Fp, pixels, c)],
        fn |-> [c \in 1 .. n |-> SumOver(Fn, pixels, c)]]

\* arr[1:]
DropFirst(arr) == IF arr = <<>> THEN <<>> ELSE Tail(arr)

\* tp_hard, fp_hard, fn_hard of validation_step.
SegmentationCounts(batch, regions, ignore) ==
    LET t == GetTpFpFn(BatchPixels(batch), regions, ignore)
    IN IF ~regions
       THEN [tp_hard |-> DropFirst(t.tp), fp_hard |-> DropFirst(t.fp),
             fn_hard |-> DropFirst(t.fn)]
       ELSE [tp_hard |-> t.tp, fp_hard |-> t.fp, fn_hard |-> t.fn]

\* How many samples of the batch satisfy P.
CountSamples(batch, P(_)) == Cardinality({i \in DOMAIN batch : P(batch[i])})

\* cls_metrics with a cls_tn that looks at the target alone.
ClassificationCounts_TnByTargetOnly(batch) ==
    LET num_classes == Len(batch[1].cls_logits)
        cls_pred(s) == ArgMax(s.cls_logits)
        cls_target(s) == s.class_target
        Tp(k) == CountSamples(batch, LAMBDA s : cls_pred(s) = k /\ cls_target(s) = k)
        Fp(k) == CountSamples(batch, LAMBDA s : cls_pred(s) = k /\ cls_target(s) # k)
        Fn(k) == CountSamples(batch, LAMBDA s : cls_pred(s) # k /\ cls_target(s) = k)
        Tn0(k) == CountSamples(batch, LAMBDA s : cls_target(s) # k)
    IN [cls_tp |-> [c \in 1 .. num_classes |-> Tp(c - 1)],
        cls_fp |-> [c \in 1 .. num_classes |-> Fp(c - 1)],
        cls_fn |-> [c \in 1 .. num_classes |-> Fn(c - 1)],
        cls_tn |-> [c \in 1 .. num_classes |-> Tn0(c - 1)],
        cls_correct |-> CountSamples(batch, LAMBDA s : cls_pred(s) = cls_target(s)),
        cls_total |-> Len(batch)]

\* cls_metrics of validation_step when a classification prediction exists.
ClassificationCounts(batch) ==
    LET num_classes == Len(batch[1].cls_logits)
        cls_pred(s) == ArgMax(s.cls_logits)
        cls_target(s) == s.class_target
        Tp(k) == CountSamples(batch, LAMBDA s : cls_pred(s) = k /\ cls_target(s) = k)
        Fp(k) == CountSamples(batch, LAMBDA s : cls_pred(s) = k /\ cls_target(s) # k)
        Fn(k) == CountSamples(batch, LAMBDA s : cls_pred(s) # k /\ cls_target(s) = k)
        Tn0(k) == CountSamples(batch, LAMBDA s : cls_pred(s) # k /\ cls_target(s) # k)
    IN [cls_tp |-> [c \in 1 .. num_classes |-> Tp(c - 1)],
        cls_fp |-> [c \in 1 .. num_classes |-> Fp(c - 1)],
        cls_fn |-> [c \in 1 .. num_classes |-> Fn(c - 1)],
        cls_tn |-> [c \in 1 .. num_classes |-> Tn0(c - 1)],
        cls_correct |-> CountSamples(batch, LAMBDA s : cls_pred(s) = cls_target(s)),
        cls_total |-> Len(batch)]

----------------------------------------------------------------------------
(* The arithmetic of on_validation_epoch_end. *)

\* The sum that keeps only the last step's array.
NpSum0_LastOnly(arrs) == arrs[Len(arrs)]

\* np.sum(a, 0) of the stacked per-step arrays: the elementwise sum.
NpSum0(arrs) ==
    [c \in 1 .. Len(arrs[1]) |-> SumSeq([i \in 1 .. Len(arrs) |-> arrs[i][c]])]

\* np.mean of a list of numbers.
NpMean(vals) == FDiv(FInt(SumSeq(vals)), FInt(Len(vals)))

\* np.nanmean: the mean of the entries that are numbers, nan when there is none.
NanMean(xs) ==
    LET valid == SelectSeq(xs, LAMBDA x : ~IsNaN(x))
    IN IF valid = <<>> THEN NaN ELSE FDiv(FSum(valid), FInt(Len(valid)))

\* The Dice with the denominator clipped away from zero: 0 instead of nan.
DicePerClass_Clipped(tp, fp, fn) ==
    [c \in 1 .. Min(Len(tp), Min(Len(fp), Len(fn))) |->
        IF 2 * tp[c] + fp[c] + fn[c] = 0 THEN FInt(0)
        ELSE Frac(2 * tp[c], 2 * tp[c] + fp[c] + fn[c])]

\* global_dc_per_class: zip stops at the shortest of the three arrays.
DicePerClass(tp, fp, fn) ==
    [c \in 1 .. Min(Len(tp), Min(Len(fp), Len(fn))) |->
        FDiv(FInt(2 * tp[c]), FInt(2 * tp[c] + fp[c] + fn[c]))]

\* The division without its where=: 0/0 is nan.
NpDivide_NoWhere(a, b) == [c \in DOMAIN a |-> FDiv(a[c], b[c])]

\* np.divide(a, b, out=zeros, where=b != 0)
NpDivideWhere(a, b) ==
    [c \in DOMAIN a |-> IF b[c] # FInt(0) THEN FDiv(a[c], b[c]) ELSE FInt(0)]

ClsAccuracy(cls_correct, cls_total) ==
    IF cls_total > 0 THEN Frac(cls_correct, cls_total) ELSE FInt(0)

ClsPrecision(cls_tp, cls_fp) ==
    NpDivideWhere([c \in DOMAIN cls_tp |-> FInt(cls_tp[c])],
                  [c \in DOMAIN cls_tp |-> FInt(cls_tp[c] + cls_fp[c])])

ClsRecall(cls_tp, cls_fn) ==
    NpDivideWhere([c \in DOMAIN cls_tp |-> FInt(cls_tp[c])],
                  [c \in DOMAIN cls_tp |-> FInt(cls_tp[c] + cls_fn[c])])

ClsF1(cls_precision, cls_recall) ==
    NpDivideWhere(
        [c \in DOMAIN cls_precision |->
            FMul(FInt(2), FMul(cls_precision[c], cls_recall[c]))],
        [c \in DOMAIN cls_precision |-> FAdd(cls_precision[c], cls_recall[c])])

\* cls_metrics_summary from the aggregated classification counts.
ClsMetricsSummary(cls_tp, cls_fp, cls_fn, cls_correct, cls_total) ==
    LET cls_precision == ClsPrecision(cls_tp, cls_fp)
        cls_recall == ClsRecall(cls_tp, cls_fn)
        cls_f1 == ClsF1(cls_precision, cls_recall)
    IN [cls_accuracy |-> ClsAccuracy(cls_correct, cls_total),
        cls_precision_per_class |-> cls_precision,
        cls_recall_per_class |-> cls_recall,
        cls_f1_per_class |-> cls_f1,
        cls_macro_precision |-> NanMean(cls_precision),
        cls_macro_recall |-> NanMean(cls_recall),
        cls_macro_f1 |-> NanMean(cls_f1)]

\* The segmentation and loss part of the returned summary.
SegSummary(tp, fp, fn, total_loss, seg_loss, cls_loss) ==
    [mean_fg_dice |-> NanMean(DicePerClass(tp, fp, fn)),
     dice_per_class |-> DicePerClass(tp, fp, fn),
     total_loss |-> total_loss,
     seg_loss |-> seg_loss,
     cls_loss |-> cls_loss]

----------------------------------------------------------------------------
(* collate_outputs: for every key of the first step result, the values of  *)
(* all step results under that key, stacked in step order.                 *)

CollateRaises(outputs) ==
    \/ outputs = <<>>
    \/ \E i \in DOMAIN outputs : \E k \in DOMAIN outputs[1] : k \notin DOMAIN outputs[i]

Collate(outputs) ==
    [k \in DOMAIN outputs[1] |-> [i \in 1 .. Len(outputs) |-> outputs[i][k]]]

\* 'cls_tp' in outputs_collated and outputs_collated['cls_tp'].size > 0
HasClsCounts(collated) ==
    /\ "cls_tp" \in DOMAIN collated
    /\ \E i \in DOMAIN collated.cls_tp : Len(collated.cls_tp[i]) > 0

\* The classification counts summed over the steps: np.sum(..., 0) of the
\* arrays, np.sum of cls_correct and cls_total.
ClsAggregate(collated) ==
    [cls_tp |-> NpSum0(collated.cls_tp),
     cls_fp |-> NpSum0(collated.cls_fp),
     cls_fn |-> NpSum0(collated.cls_fn),
     cls_tn |-> NpSum0(collated.cls_tn),
     cls_correct |-> SumSeq(collated.cls_correct),
     cls_total |-> SumSeq(collated.cls_total)]

\* The summary on_validation_epoch_end returns when self.is_ddp is false.
LocalSummary(collated) ==
    LET seg == SegSummary(NpSum0(collated.tp_hard), NpSum0(collated.fp_hard),
                          NpSum0(collated.fn_hard), NpMean(collated.loss),
                          NpMean(collated.seg_loss), NpMean(collated.cls_loss))
        agg == ClsAggregate(collated)
    IN IF HasClsCounts(collated)
       THEN seg @@ ClsMetricsSummary(agg.cls_tp, agg.cls_fp, agg.cls_fn,
                                     agg.cls_correct, agg.cls_total)
       ELSE seg

----------------------------------------------------------------------------
(* The steps. *)

\* The split of the network output into (seg_output, cls_output):
\*   if isinstance(output, dict) and len(output) == 2: output['segmentation'], ...
\*   else: seg_output = output; cls_output = None
SplitOutput(output) ==
    IF output.isdict /\ Cardinality(output.keys) = 2
    THEN IF {"segmentation", "classification"} \subseteq output.keys
         THEN [raised |-> "", seg_output |-> "tensor", cls_output |-> "tensor"]
         ELSE [raised |-> "KeyError", seg_output |-> "", cls_output |-> ""]
    ELSE [raised |-> "", seg_output |-> IF output.isdict THEN "dict" ELSE "tensor",
          cls_output |-> "none"]

\* The loss functor raising instead of returning a mapping: possible only when
\* it is handed something that is no tensor as the segmentation prediction.
LossFails == [raised |-> Tn("e", 0)]

LossResults(output) ==
    IF SplitOutput(output).seg_output = "dict"
    THEN LossMappings \cup {LossFails}
    ELSE LossMappings

\* loss_dict.get(key, 0.0) as a plain number.
LossValue(loss_dict, key) == IF key \in DOMAIN loss_dict THEN loss_dict[key].val ELSE 0

\* train_step with optimizer.step() ahead of the backward pass: the update is
\* applied although loss_dict['loss'] then raises.
TrainStepOutcome_StepBeforeBackward(output, loss_dict) ==
    LET sp == SplitOutput(output)
        raised == IF sp.raised # "" THEN sp.raised
                  ELSE IF "raised" \in DOMAIN loss_dict THEN "LossError"
                  ELSE IF "loss" \notin DOMAIN loss_dict THEN "KeyError"
                  ELSE ""
    IN [split |-> sp,
        raised |-> raised,
        backward_on |-> IF raised = "" THEN loss_dict["loss"].id ELSE "",
        stepped |-> sp.raised = "" /\ "raised" \notin DOMAIN loss_dict,
        ret |-> IF raised = "" THEN <<loss_dict>> ELSE <<>>]

\* What one call of train_step does: the exception it raises ("" for none), the
\* tensor backward() ran on, whether optimizer.step() ran, what it returned.
TrainStepOutcome(output, loss_dict) ==
    LET sp == SplitOutput(output)
        raised == IF sp.raised # "" THEN sp.raised
                  ELSE IF "raised" \in DOMAIN loss_dict THEN "LossError"
                  ELSE IF "loss" \notin DOMAIN loss_dict THEN "KeyError"
                  ELSE ""
    IN [split |-> sp,
        raised |-> raised,
        backward_on |-> IF raised = "" THEN loss_dict["loss"].id ELSE "",
        stepped |-> raised = "",
        ret |-> IF raised = "" THEN <<loss_dict>> ELSE <<>>]

\* The counts of every batch, computed once.
SegmentationCountsOf ==
    [regions \in BOOLEAN |-> [ignore \in BOOLEAN |->
        [batch \in AllBatches |-> SegmentationCounts(batch, regions, ignore)]]]

ClassificationCountsOf == [batch \in AllBatches |-> ClassificationCounts(batch)]

\* The result dictionary validation_step builds.
ValidationResult(batch, cls_present, loss_dict, regions, ignore) ==
    LET base == [loss |-> LossValue(loss_dict, "total_loss"),
                 seg_loss |-> LossValue(loss_dict, "seg_loss"),
                 cls_loss |-> LossValue(loss_dict, "cls_loss")]
                @@ SegmentationCountsOf[regions][ignore][batch]
    IN IF cls_present THEN base @@ ClassificationCountsOf[batch] ELSE base

\* What one call of validation_step does up to its breakpoint.  A dict has no
\* .ndim: the step raises AttributeError when seg_output is the whole dict.
ValidationStepOutcome(batch, output, loss_dict, regions, ignore) ==
    LET sp == SplitOutput(output)
        raised == IF sp.raised # "" THEN sp.raised
                  ELSE IF "raised" \in DOMAIN loss_dict THEN "LossError"
                  ELSE IF sp.seg_output = "dict" THEN "AttributeError"
                  ELSE ""
    IN [split |-> sp,
        raised |-> raised,
        backward_on |-> "",
        stepped |-> FALSE,
        ret |-> IF raised = ""
                THEN <<ValidationResult(batch, sp.cls_output = "tensor", loss_dict,
                                        regions, ignore)>>
                ELSE <<>>]

\* The ramp without its min(..., 1.0): the weight keeps growing after epoch 100.
RampedClsWeight_NoClamp(epoch) ==
    FMul(Frac(ClsWeightNum, ClsWeightDen), Frac(epoch, RampEpochs))

\* The classification weight on_train_epoch_start writes into the loss functor:
\*   epoch_ratio = min(self.current_epoch / 100.0, 1.0)
\*   self.loss.cls_weight = self.cls_weight * epoch_ratio
RampedClsWeight(epoch) ==
    FMul(Frac(ClsWeightNum, ClsWeightDen),
         IF epoch >= RampEpochs THEN FInt(1) ELSE Frac(epoch, RampEpochs))

NoCall ==
    [op |-> "none", output |-> TensorOut, loss_dict |-> <<>>, split |-> SplitOutput(TensorOut),
     raised |-> "", backward_on |-> "", stepped |-> FALSE, ret |-> <<>>,
     cls_weight |-> NaN, epoch |-> -1]

CallRecord(op, output, loss_dict, outcome, w) ==
    [op |-> op, output |-> output, loss_dict |-> <<loss_dict>>, split |-> outcome.split,
     raised |-> outcome.raised, backward_on |-> outcome.backward_on,
     stepped |-> outcome.stepped, ret |-> outcome.ret,
     cls_weight |-> loss_cls_weight[w], epoch |-> current_epoch[w]]

----------------------------------------------------------------------------
(* The distributed reduction of on_validation_epoch_end. *)

SegGathers == <<"tp", "fp", "fn", "loss", "seg_loss", "cls_loss">>

ClsGathers == <<"cls_tp", "cls_fp", "cls_fn", "cls_correct", "cls_total">>

\* The dist.all_gather_object calls a worker issues, in program order: the six
\* under `if self.is_ddp`, then five more inside the `'cls_tp' in
\* outputs_collated` block.
GatherPlan(collated) ==
    IF HasClsCounts(collated) THEN SegGathers \o ClsGathers ELSE SegGathers

\* The object a worker contributes to the call of that name.
GatherInput(collated, name) ==
    CASE name = "tp" -> NpSum0(collated.tp_hard)
      [] name = "fp" -> NpSum0(collated.fp_hard)
      [] name = "fn" -> NpSum0(collated.fn_hard)
      [] name = "loss" -> collated.loss
      [] name = "seg_loss" -> collated.seg_loss
      [] name = "cls_loss" -> collated.cls_loss
      [] name = "cls_tp" -> NpSum0(collated.cls_tp)
      [] name = "cls_fp" -> NpSum0(collated.cls_fp)
      [] name = "cls_fn" -> NpSum0(collated.cls_fn)
      [] name = "cls_correct" -> SumSeq(collated.cls_correct)
      [] name = "cls_total" -> SumSeq(collated.cls_total)

\* What the worker makes of the gathered list (one object per worker):
\*   np.vstack([i[None] for i in tps]).sum(0)   for the count arrays,
\*   np.vstack(losses_val).mean()               for the losses,
\*   np.sum(cls_corrects)                       for the two scalars.
GatherReduce(name, gathered) ==
    IF name \in {"tp", "fp", "fn", "cls_tp", "cls_fp", "cls_fn"} THEN NpSum0(gathered)
    ELSE IF name \in {"loss", "seg_loss", "cls_loss"} THEN NpMean(Flatten(gathered))
    ELSE SumSeq(gathered)

\* The summary returned from the reduced values.
ReducedSummary(collated, red) ==
    LET seg == SegSummary(red.tp, red.fp, red.fn, red.loss, red.seg_loss, red.cls_loss)
    IN IF HasClsCounts(collated)
       THEN seg @@ ClsMetricsSummary(red.cls_tp, red.cls_fp, red.cls_fn,
                                     red.cls_correct, red.cls_total)
       ELSE seg

NoAcc == [collated |-> <<>>, red |-> <<>>]

Call(name, value) == [name |-> name, value |-> value]

\* All workers have entered their k-th collective call.
AllEntered(k) == \A v \in Workers : Len(calls[v]) >= k

\* The objects of the k-th call, in rank order.
Gathered(k) == [i \in 1 .. WorldSize |-> calls[i - 1][k].value]

----------------------------------------------------------------------------
(* The trainer's life: run_training calls on_train_epoch_start, then        *)
(* train_step MaxTrainSteps times, then validation_step MaxValSteps times,  *)
(* then on_validation_epoch_end with the list of the validation results,    *)
(* then on_epoch_end.  An exception ends the process.                       *)

\* The epochs a run starts at: 0, or the epoch of the checkpoint it resumes.
ResumeEpochs == {0, 50, 100, 150}

Bump(f, w, n) == [f EXCEPT ![w] = @ + n]

\* The lists of a process whose call raised die with it.
Keep(f, w, raised, empty) == [f EXCEPT ![w] = IF raised THEN empty ELSE @]

To(w, where) == [pc EXCEPT ![w] = where]

\* on_train_epoch_start
OnTrainEpochStart(w) ==
    /\ pc[w] = "epoch_start"
    /\ loss_cls_weight' = [loss_cls_weight EXCEPT ![w] = RampedClsWeight(current_epoch[w])]
    /\ steps_left' = [steps_left EXCEPT ![w] = MaxTrainSteps]
    /\ pc' = To(w, "train")
    /\ UNCHANGED <<is_ddp, has_regions, has_ignore, current_epoch, epochs_left,
                   optimizer_steps, train_returned, last_call, val_data, val_outputs,
                   pending, calls, acc, summary, metric_in, metric_out,
                   build_in, build_out>>

\* train_step
TrainStep(w, output, loss_dict) ==
    LET o == TrainStepOutcome(output, loss_dict)
        last == steps_left[w] = 1
    IN /\ pc[w] = "train"
       /\ last_call' = [last_call EXCEPT ![w] =
                            CallRecord("train_step", output, loss_dict, o, w)]
       /\ optimizer_steps' = Bump(optimizer_steps, w, IF o.stepped THEN 1 ELSE 0)
       /\ train_returned' = Bump(train_returned, w, IF o.raised = "" THEN 1 ELSE 0)
       /\ pc' = To(w, IF o.raised # "" THEN "crashed" ELSE IF last THEN "val" ELSE "train")
       /\ steps_left' = [steps_left EXCEPT ![w] =
                            IF o.raised # "" THEN @ ELSE IF last THEN MaxValSteps ELSE @ - 1]
       /\ UNCHANGED <<is_ddp, has_regions, has_ignore, current_epoch, loss_cls_weight,
                      epochs_left, val_data, val_outputs, pending, calls, acc, summary,
                      metric_in, metric_out,
                      build_in, build_out>>

\* validation_step, up to the pdb.set_trace() before its return
ValidationStep(w, batch, output, loss_dict) ==
    LET o == ValidationStepOutcome(batch, output, loss_dict, has_regions, has_ignore)
    IN /\ pc[w] = "val"
       /\ last_call' = [last_call EXCEPT ![w] =
                            CallRecord("validation_step", output, loss_dict, o, w)]
       /\ optimizer_steps' = Bump(optimizer_steps, w, IF o.stepped THEN 1 ELSE 0)
       /\ pc' = To(w, IF o.raised # "" THEN "crashed" ELSE "pdb_validation_step")
       /\ pending' = [pending EXCEPT ![w] = o.ret]
       /\ val_data' = [val_data EXCEPT ![w] = IF o.raised = "" THEN Append(@, batch) ELSE <<>>]
       /\ val_outputs' = Keep(val_outputs, w, o.raised # "", <<>>)
       /\ UNCHANGED <<is_ddp, has_regions, has_ignore, current_epoch, loss_cls_weight,
                      steps_left, epochs_left, train_returned, calls, acc,
                      summary, metric_in, metric_out,
                      build_in, build_out>>

\* The debugger of validation_step is told to continue: the step returns its
\* result, which the loop appends to the list of validation outputs.
PdbContinueStep(w) ==
    /\ pc[w] = "pdb_validation_step"
    /\ val_outputs' = [val_outputs EXCEPT ![w] = Append(@, pending[w][1])]
    /\ pending' = [pending EXCEPT ![w] = <<>>]
    /\ steps_left' = [steps_left EXCEPT ![w] = @ - 1]
    /\ pc' = To(w, IF steps_left[w] = 1 THEN "val_end" ELSE "val")
    /\ UNCHANGED <<is_ddp, has_regions, has_ignore, current_epoch, loss_cls_weight,
                   epochs_left, optimizer_steps, train_returned, last_call, val_data,
                   calls, acc, summary, metric_in, metric_out,
                   build_in, build_out>>

\* The debugger is quit, or its input is at end of file: bdb.BdbQuit is raised.
PdbQuit(w) ==
    /\ pc[w] \in {"pdb_validation_step", "pdb_epoch_end"}
    /\ last_call' = [last_call EXCEPT ![w].raised = "BdbQuit", ![w].ret = <<>>]
    /\ pending' = [pending EXCEPT ![w] = <<>>]
    /\ pc' = To(w, "crashed")
    /\ val_data' = Keep(val_data, w, TRUE, <<>>)
    /\ val_outputs' = Keep(val_outputs, w, TRUE, <<>>)
    /\ acc' = Keep(acc, w, TRUE, NoAcc)
    /\ UNCHANGED <<is_ddp, has_regions, has_ignore, current_epoch, loss_cls_weight,
                   steps_left, epochs_left, optimizer_steps, train_returned,
                   calls, summary, metric_in, metric_out,
                   build_in, build_out>>

\* on_validation_epoch_end, up to the pdb.set_trace() after collate_outputs
OnValidationEpochEnd(w) ==
    LET fails == CollateRaises(val_outputs[w])
    IN /\ pc[w] = "val_end"
       /\ last_call' = [last_call EXCEPT ![w] =
                            [NoCall EXCEPT !.op = "on_validation_epoch_end",
                                           !.raised = IF fails THEN "KeyError" ELSE "",
                                           !.cls_weight = loss_cls_weight[w],
                                           !.epoch = current_epoch[w]]]
       /\ acc' = [acc EXCEPT ![w] =
                     IF fails THEN NoAcc
                     ELSE [collated |-> Collate(val_outputs[w]), red |-> <<>>]]
       /\ pc' = To(w, IF fails THEN "crashed" ELSE "pdb_epoch_end")
       /\ val_data' = Keep(val_data, w, fails, <<>>)
       /\ val_outputs' = Keep(val_outputs, w, fails, <<>>)
       /\ UNCHANGED <<is_ddp, has_regions, has_ignore, current_epoch, loss_cls_weight,
                      steps_left, epochs_left, optimizer_steps, train_returned,
                      pending, calls, summary, metric_in, metric_out,
                      build_in, build_out>>

\* The debugger of on_validation_epoch_end is told to continue.  Not
\* distributed: the rest of the method runs and returns the summary.
\* Distributed: the method runs into its first all_gather_object.
PdbContinueEpochEnd(w) ==
    /\ pc[w] = "pdb_epoch_end"
    /\ IF is_ddp
       THEN /\ calls' = [calls EXCEPT ![w] =
                            Append(@, Call("tp", GatherInput(acc[w].collated, "tp")))]
            /\ pc' = To(w, "all_gather")
            /\ UNCHANGED summary
       ELSE /\ summary' = [summary EXCEPT ![w] = <<LocalSummary(acc[w].collated)>>]
            /\ pc' = To(w, "epoch_end")
            /\ UNCHANGED calls
    /\ UNCHANGED <<is_ddp, has_regions, has_ignore, current_epoch, loss_cls_weight,
                   steps_left, epochs_left, optimizer_steps, train_returned, last_call,
                   val_data, val_outputs, pending, acc, metric_in, metric_out,
                   build_in, build_out>>

\* One all_gather_object completes for worker w: every worker has entered its
\* call of the same position.  The worker reduces what it gathered and runs on
\* into its next all_gather_object, or to the end of the method.
AllGather(w) ==
    LET k == Len(calls[w])
        name == calls[w][k].name
        plan == GatherPlan(acc[w].collated)
        red == acc[w].red @@ (name :> GatherReduce(name, Gathered(k)))
    IN /\ pc[w] = "all_gather"
       /\ AllEntered(k)
       /\ acc' = [acc EXCEPT ![w].red = red]
       /\ IF k < Len(plan)
          THEN /\ calls' = [calls EXCEPT ![w] =
                               Append(@, Call(plan[k + 1],
                                              GatherInput(acc[w].collated, plan[k + 1])))]
               /\ UNCHANGED <<pc, summary>>
          ELSE /\ summary' = [summary EXCEPT ![w] =
                                 <<ReducedSummary(acc[w].collated, red)>>]
               /\ pc' = To(w, "epoch_end")
               /\ UNCHANGED calls
       /\ UNCHANGED <<is_ddp, has_regions, has_ignore, current_epoch, loss_cls_weight,
                      steps_left, epochs_left, optimizer_steps, train_returned, last_call,
                      val_data, val_outputs, pending, metric_in, metric_out,
                      build_in, build_out>>

\* on_epoch_end: the epoch counter advances; the epoch's lists are dropped
\* when another epoch follows.
OnEpochEnd(w) ==
    LET more == epochs_left[w] > 1
    IN /\ pc[w] = "epoch_end"
       /\ current_epoch' = Bump(current_epoch, w, 1)
       /\ epochs_left' = Bump(epochs_left, w, -1)
       /\ pc' = To(w, IF more THEN "epoch_start" ELSE "finished")
       /\ val_outputs' = [val_outputs EXCEPT ![w] = IF more THEN <<>> ELSE @]
       /\ val_data' = [val_data EXCEPT ![w] = IF more THEN <<>> ELSE @]
       /\ summary' = [summary EXCEPT ![w] = IF more THEN <<>> ELSE @]
       /\ acc' = [acc EXCEPT ![w] = IF more THEN NoAcc ELSE @]
       /\ last_call' = [last_call EXCEPT ![w] = IF more THEN NoCall ELSE @]
       /\ UNCHANGED <<is_ddp, has_regions, has_ignore, loss_cls_weight, steps_left,
                      optimizer_steps, train_returned, pending, calls, metric_in,
                      metric_out, build_in, build_out>>

----------------------------------------------------------------------------
(* The single-process run. *)

NoMetrics == <<>>

NoBuild == <<>>

InitWorkers(active) ==
    /\ pc = [w \in Workers |-> IF w \in active THEN "epoch_start" ELSE "absent"]
    /\ loss_cls_weight = [w \in Workers |-> Frac(ClsWeightNum, ClsWeightDen)]
    /\ steps_left = [w \in Workers |-> 0]
    /\ optimizer_steps = [w \in Workers |-> 0]
    /\ train_returned = [w \in Workers |-> 0]
    /\ last_call = [w \in Workers |-> NoCall]
    /\ val_data = [w \in Workers |-> <<>>]
    /\ val_outputs = [w \in Workers |-> <<>>]
    /\ pending = [w \in Workers |-> <<>>]
    /\ calls = [w \in Workers |-> <<>>]
    /\ acc = [w \in Workers |-> NoAcc]
    /\ summary = [w \in Workers |-> <<>>]

\* A fresh run in any of the four label spaces, or a resumed run in the plain
\* one (labels, no ignore label).
Init ==
    /\ is_ddp = FALSE
    /\ \E e \in ResumeEpochs : \E r \in BOOLEAN : \E i \in BOOLEAN :
          /\ e = 0 \/ (~r /\ ~i)
          /\ has_regions = r
          /\ has_ignore = i
          /\ current_epoch = [w \in Workers |-> e]
    /\ epochs_left = [w \in Workers |-> MaxEpochsRun]
    /\ InitWorkers({0})
    /\ metric_in = NoMetrics
    /\ metric_out = NoMetrics
    /\ build_in = NoBuild
    /\ build_out = NoBuild

Next ==
    \E w \in Workers :
        \/ OnTrainEpochStart(w)
        \/ \E output \in NetworkOutputs : \E loss_dict \in LossResults(output) :
              TrainStep(w, output, loss_dict)
        \/ \E batch \in Batches(has_ignore) : \E output \in NetworkOutputs :
              \E loss_dict \in LossResults(output) :
                 ValidationStep(w, batch, output, loss_dict)
        \/ PdbContinueStep(w)
        \/ PdbQuit(w)
        \/ OnValidationEpochEnd(w)
        \/ PdbContinueEpochEnd(w)
        \/ OnEpochEnd(w)

Spec == Init /\ [][Next]_vars

----------------------------------------------------------------------------
(* Properties of the single-process run. *)

Returned(w) == pc[w] \in {"epoch_end", "finished"} /\ summary[w] # <<>>

IsTheRecord(output) ==
    output.isdict /\ output.keys = {"segmentation", "classification"}

ClsKeys == {"cls_tp", "cls_fp", "cls_fn", "cls_tn", "cls_correct", "cls_total"}

\* C3: validation_step and on_validation_epoch_end never wait on an
\* interactive debugger: no worker is ever stopped at a breakpoint.
C3_NoDebuggerWait ==
    \A w \in Workers : pc[w] \notin {"pdb_validation_step", "pdb_epoch_end"}

\* C4: whenever the loss functor has returned a mapping with total_loss,
\* seg_loss and cls_loss to train_step, train_step has run backward() on the
\* total_loss entry of that mapping and has returned the mapping.
C4_BackwardOnTotalLoss ==
    \A w \in Workers :
        (/\ last_call[w].op = "train_step"
         /\ last_call[w].split.raised = ""
         /\ {"total_loss", "seg_loss", "cls_loss"} \subseteq DOMAIN last_call[w].loss_dict[1])
        => /\ last_call[w].raised = ""
           /\ last_call[w].backward_on = last_call[w].loss_dict[1].total_loss.id
           /\ last_call[w].ret = last_call[w].loss_dict

\* C5: the optimizer updates applied so far are as many as the train_step calls
\* that have returned, whatever validation steps and epoch ends ran between.
C5_OneUpdatePerTrainStep ==
    \A w \in Workers : optimizer_steps[w] = train_returned[w]

C5_Witness ==
    /\ pc[0] = "finished"
    /\ train_returned[0] = MaxTrainSteps * MaxEpochsRun
    /\ optimizer_steps[0] > 0
    /\ Len(val_outputs[0]) = MaxValSteps
    /\ summary[0] # <<>>

\* C6: a train_step of epoch e reads the classification weight
\* cls_weight * min(e / 100, 1): 0 at epoch 0, half of cls_weight at epoch 50,
\* cls_weight from epoch 100 on.
C6_RampedWeightRead ==
    \A w \in Workers :
        last_call[w].op = "train_step" =>
            LET e == last_call[w].epoch
                wt == last_call[w].cls_weight
            IN /\ wt[2] > 0
               /\ wt[1] * (ClsWeightDen * RampEpochs) = wt[2] * (ClsWeightNum * Min(e, RampEpochs))
               /\ e = 0 => wt = <<0, 1>>
               /\ e = 50 => wt = <<ClsWeightNum, 2 * ClsWeightDen>>
               /\ e >= 100 => wt = <<ClsWeightNum, ClsWeightDen>>

C6_Witness ==
    /\ last_call[0].op = "train_step"
    /\ last_call[0].epoch = 50
    /\ last_call[0].cls_weight = <<1, 4>>
    /\ train_returned[0] = 1

C8_DiceOfAggregatedCounts ==
    \A w \in Workers :
        Returned(w) =>
            LET tp == NpSum0(acc[w].collated.tp_hard)
                fp == NpSum0(acc[w].collated.fp_hard)
                fn == NpSum0(acc[w].collated.fn_hard)
                dice == summary[w][1].dice_per_class
                den(c) == 2 * tp[c] + fp[c] + fn[c]
                valid == {c \in DOMAIN tp : den(c) # 0}
                validDice == SelectSeq(dice, LAMBDA x : x[2] # 0)
            IN /\ DOMAIN dice = DOMAIN tp
               /\ \A c \in DOMAIN tp :
                     IF den(c) # 0
                     THEN dice[c][2] > 0 /\ dice[c][1] * den(c) = 2 * tp[c] * dice[c][2]
                     ELSE dice[c] = NaN
               /\ IF valid = {}
                  THEN summary[w][1].mean_fg_dice = NaN
                  ELSE /\ Len(validDice) = Cardinality(valid)
                       /\ ~IsNaN(summary[w][1].mean_fg_dice)
                       /\ FMul(summary[w][1].mean_fg_dice, FInt(Cardinality(valid)))
                            = FSum(validDice)

C8_Witness ==
    /\ Returned(0)
    /\ ~is_ddp
    /\ \E c \in DOMAIN summary[0][1].dice_per_class :
          summary[0][1].dice_per_class[c] = NaN
    /\ \E c \in DOMAIN summary[0][1].dice_per_class :
          summary[0][1].dice_per_class[c] = <<2, 3>>
    /\ ~IsNaN(summary[0][1].mean_fg_dice)

\* C10: the Dice computed from the per-step counts summed over the validation
\* steps is the Dice computed from the counts of one step that holds the whole
\* validation set, per class and in the mean.
C10_SumThenDice ==
    \A w \in Workers :
        (Returned(w) /\ ~is_ddp) =>
            LET whole == SegmentationCounts(Flatten(val_data[w]), has_regions, has_ignore)
                dice == DicePerClass(whole.tp_hard, whole.fp_hard, whole.fn_hard)
            IN /\ summary[w][1].dice_per_class = dice
               /\ summary[w][1].mean_fg_dice = NanMean(dice)

C10_Witness ==
    /\ Returned(0)
    /\ ~is_ddp
    /\ Len(val_data[0]) = MaxValSteps
    /\ val_data[0][1] # val_data[0][2]
    /\ \E c \in DOMAIN summary[0][1].dice_per_class :
          /\ ~IsNaN(summary[0][1].dice_per_class[c])
          /\ summary[0][1].dice_per_class[c][1] \notin {0, summary[0][1].dice_per_class[c][2]}

----------------------------------------------------------------------------
(* The distributed run: WorldSize processes, each with its own trainer, its *)
(* own shard of the data and the same number of iterations, followed for    *)
(* one epoch from a fresh start in the plain label space.                  *)

DDPTrainInputs ==
    { [output |-> TensorOut, loss_dict |-> LossWithLoss],
      [output |-> TheRecord, loss_dict |-> LossThree] }

DDPValInputs ==
    { [batch |-> <<SampleA>>, output |-> TheRecord, loss_dict |-> LossWithLoss],
      [batch |-> <<SampleB>>, output |-> TheRecord, loss_dict |-> LossThree],
      [batch |-> <<SampleB>>, output |-> TensorOut, loss_dict |-> LossWithLoss],
      [batch |-> <<SampleD>>, output |-> TensorOut, loss_dict |-> LossThree] }

InitDDP ==
    /\ is_ddp = TRUE
    /\ has_regions = FALSE
    /\ has_ignore = FALSE
    /\ current_epoch = [w \in Workers |-> 0]
    /\ epochs_left = [w \in Workers |-> 1]
    /\ InitWorkers(Workers)
    /\ metric_in = NoMetrics
    /\ metric_out = NoMetrics
    /\ build_in = NoBuild
    /\ build_out = NoBuild

NextDDP ==
    \E w \in Workers :
        \/ OnTrainEpochStart(w)
        \/ \E in \in DDPTrainInputs : TrainStep(w, in.output, in.loss_dict)
        \/ \E in \in DDPValInputs : ValidationStep(w, in.batch, in.output, in.loss_dict)
        \/ PdbContinueStep(w)
        \/ PdbQuit(w)
        \/ OnValidationEpochEnd(w)
        \/ PdbContinueEpochEnd(w)
        \/ AllGather(w)
        \/ OnEpochEnd(w)

SpecDDP == InitDDP /\ [][NextDDP]_vars

CallNames(w) == [k \in DOMAIN calls[w] |-> calls[w][k].name]

\* The validation results of all workers as one list, in rank order.
AllValOutputs == Flatten([i \in 1 .. WorldSize |-> val_outputs[i - 1]])

\* C1: the workers issue the same collective calls in the same order: the
\* calls of two workers agree name by name, and no worker has returned from
\* on_validation_epoch_end while another has entered a call it never issued.
C1_SameCollectiveCalls ==
    \A w \in Workers : \A v \in Workers :
        /\ \A k \in DOMAIN calls[w] \cap DOMAIN calls[v] :
              calls[w][k].name = calls[v][k].name
        /\ Returned(w) => Len(calls[v]) <= Len(calls[w])

\* C2: the summary a worker of the distributed run returns is the summary of
\* the single-process run over the same step results, and the distributed run
\* does return it on every worker: none is left in a collective call the
\* others never issue.
C2_SameSummaryAsSingleProcess ==
    \A w \in Workers :
        Returned(w) =>
            /\ ~CollateRaises(AllValOutputs)
            /\ summary[w][1] = LocalSummary(Collate(AllValOutputs))
            /\ \A v \in Workers : Len(calls[v]) <= Len(calls[w])

\* Where every worker has returned, each returned the single-process summary.
DDPSummaryWhereAllReturn ==
    (\A w \in Workers : Returned(w)) =>
        \A w \in Workers :
            /\ ~CollateRaises(AllValOutputs)
            /\ summary[w][1] = LocalSummary(Collate(AllValOutputs))

----------------------------------------------------------------------------
(* The classification metrics of on_validation_epoch_end as a function of  *)
(* the aggregated counts alone, over every array of up to MaxCls classes   *)
(* whose counts add up to at most MaxSum.                                  *)

\* The sequences of n naturals that add up to at most MaxSum.
RECURSIVE SeqsUpTo(_)
SeqsUpTo(n) ==
    IF n = 0 THEN {<<>>}
    ELSE { Append(p[1], p[2]) :
             p \in { r \in SeqsUpTo(n - 1) \X (0 .. MaxSum) : SumSeq(r[1]) + r[2] <= MaxSum } }

\* The counts of n classes, then the correct and the incorrect predictions.
MetricInput(n, q) ==
    [cls_tp |-> SubSeq(q, 1, n),
     cls_fp |-> SubSeq(q, n + 1, 2 * n),
     cls_fn |-> SubSeq(q, 2 * n + 1, 3 * n),
     cls_correct |-> q[3 * n + 1],
     cls_total |-> q[3 * n + 1] + q[3 * n + 2]]

MetricInputs(n) == { MetricInput(n, q) : q \in SeqsUpTo(3 * n + 2) }

InitMetrics ==
    /\ is_ddp = FALSE
    /\ has_regions = FALSE
    /\ has_ignore = FALSE
    /\ current_epoch = [w \in Workers |-> 0]
    /\ epochs_left = [w \in Workers |-> 0]
    /\ InitWorkers({})
    /\ \E n \in 1 .. MaxCls : \E m \in MetricInputs(n) : metric_in = <<m>>
    /\ metric_out = NoMetrics
    /\ build_in = NoBuild
    /\ build_out = NoBuild

\* Lines 358-380 of on_validation_epoch_end on the aggregated counts.
ComputeClsMetrics ==
    /\ metric_in # <<>>
    /\ metric_out = <<>>
    /\ metric_out' = <<ClsMetricsSummary(metric_in[1].cls_tp, metric_in[1].cls_fp,
                                         metric_in[1].cls_fn, metric_in[1].cls_correct,
                                         metric_in[1].cls_total)>>
    /\ UNCHANGED <<is_ddp, has_regions, has_ignore, current_epoch, loss_cls_weight, pc,
                   steps_left, epochs_left, optimizer_steps, train_returned, last_call,
                   val_data, val_outputs, pending, calls, acc, summary, metric_in,
                   build_in, build_out>>

NextMetrics == ComputeClsMetrics

SpecMetrics == InitMetrics /\ [][NextMetrics]_vars

\* A ratio q equals num / den (den > 0), by cross-multiplication.
IsRatio(q, num, den) == q[2] > 0 /\ q[1] * den = num * q[2]

Zero == FInt(0)

\* C9: the classification metrics are computed from the aggregated counts.
\* Accuracy is cls_correct / cls_total, and 0 when cls_total is 0.  For every
\* class, precision is tp / (tp + fp) and recall is tp / (tp + fn), each 0
\* (never nan) when its denominator is 0; F1 is 2PR / (P + R), and 0 when
\* P + R is 0.  The macro precision, recall and F1 are the unweighted means
\* over all the classes.  For tp = [2, 0], fp = [1, 0], fn = [0, 3] the
\* precision is [2/3, 0], the recall [1, 0], the F1 [4/5, 0], the macro F1 2/5.
C9_ClassificationMetrics ==
    metric_out # <<>> =>
        LET in == metric_in[1]
            out == metric_out[1]
            n == Len(in.cls_tp)
        IN  /\ IF in.cls_total > 0
               THEN IsRatio(out.cls_accuracy, in.cls_correct, in.cls_total)
               ELSE out.cls_accuracy = Zero
            /\ \A c \in 1 .. n :
                LET tp == in.cls_tp[c]
                    fp == in.cls_fp[c]
                    fn == in.cls_fn[c]
                    P == out.cls_precision_per_class[c]
                    R == out.cls_recall_per_class[c]
                    F == out.cls_f1_per_class[c]
                IN  /\ IF tp + fp = 0 THEN P = Zero ELSE IsRatio(P, tp, tp + fp)
                    /\ IF tp + fn = 0 THEN R = Zero ELSE IsRatio(R, tp, tp + fn)
                    /\ IF FAdd(P, R) = Zero THEN F = Zero
                       ELSE /\ ~IsNaN(F)
                            /\ FMul(F, FAdd(P, R)) = FMul(FInt(2), FMul(P, R))
            /\ ~IsNaN(out.cls_macro_precision)
            /\ ~IsNaN(out.cls_macro_recall)
            /\ ~IsNaN(out.cls_macro_f1)
            /\ FMul(out.cls_macro_precision, FInt(n)) = FSum(out.cls_precision_per_class)
            /\ FMul(out.cls_macro_recall, FInt(n)) = FSum(out.cls_recall_per_class)
            /\ FMul(out.cls_macro_f1, FInt(n)) = FSum(out.cls_f1_per_class)
            /\ (in.cls_tp = <<2, 0>> /\ in.cls_fp = <<1, 0>> /\ in.cls_fn = <<0, 3>>) =>
                /\ out.cls_precision_per_class = <<Frac(2, 3), Zero>>
                /\ out.cls_recall_per_class = <<FInt(1), Zero>>
                /\ out.cls_f1_per_class = <<Frac(4, 5), Zero>>
                /\ out.cls_macro_f1 = Frac(2, 5)

\* The example of C9 has been computed.
C9_Witness ==
    /\ metric_out # <<>>
    /\ metric_in[1].cls_tp = <<2, 0>>
    /\ metric_in[1].cls_fp = <<1, 0>>
    /\ metric_in[1].cls_fn = <<0, 3>>
    /\ metric_out[1].cls_macro_f1 = Frac(2, 5)

----------------------------------------------------------------------------
(* build_network_architecture as a function of its arguments.              *)

\* The three multi-task network classes imported from
\* nnunetv2.architectures.MultiTaskResEncUNet.
NetworkClasses ==
    { "class MultiTaskResEncUNet",
      "class MultiTaskChannelAttentionResEncUNet",
      "class MultiTaskEfficientAttentionResEncUNet" }

\* architecture_mapping, key by key as the dict literal has it.
architecture_mapping ==
    [name \in { "nnunetv2.architectures.MultiTaskResEncUNet.MultiTaskResEncUNet",
                "nnunetv2.architectures.MultiTaskResEncUNet.MultiTaskChannelAttentionResEncUNet",
                "nnunetv2.architectures.MultiTaskResEncUNet.MultiTaskEfficientAttentionResEncUNet",
                "MultiTaskResEncUNet",
                "MultiTaskChannelAttentionResEncUNet",
                "MultiTaskEfficientAttentionResEncUNet" } |->
        CASE name = "nnunetv2.architectures.MultiTaskResEncUNet.MultiTaskResEncUNet" ->
                "class MultiTaskResEncUNet"
          [] name = "nnunetv2.architectures.MultiTaskResEncUNet.MultiTaskChannelAttentionResEncUNet" ->
                "class MultiTaskChannelAttentionResEncUNet"
          [] name = "nnunetv2.architectures.MultiTaskResEncUNet.MultiTaskEfficientAttentionResEncUNet" ->
                "class MultiTaskEfficientAttentionResEncUNet"
          [] name = "MultiTaskResEncUNet" -> "class MultiTaskResEncUNet"
          [] name = "MultiTaskChannelAttentionResEncUNet" ->
                "class MultiTaskChannelAttentionResEncUNet"
          [] name = "MultiTaskEfficientAttentionResEncUNet" ->
                "class MultiTaskEfficientAttentionResEncUNet"]

\* A lookup that falls back to the plain variant for a name it does not know.
network_class_FallbackToDefault(architecture_class_name) ==
    IF architecture_class_name \in DOMAIN architecture_mapping
    THEN <<architecture_mapping[architecture_class_name]>>
    ELSE <<"class MultiTaskResEncUNet">>

\* network_class: the class looked up, or nothing where the ValueError is raised.
network_class(architecture_class_name) ==
    IF architecture_class_name \in DOMAIN architecture_mapping
    THEN <<architecture_mapping[architecture_class_name]>>
    ELSE <<>>

\* Identifiers a plans file may carry: the six known ones, and others.
ArchitectureNames ==
    DOMAIN architecture_mapping \cup
    { "dynamic_network_architectures.architectures.unet.PlainConvUNet",
      "dynamic_network_architectures.architectures.unet.ResidualEncoderUNet",
      "nnunetv2.architectures.MultiTaskResEncUNet",
      "nnunetv2.architectures.MultiTaskResEncUNet.MultiTaskUNet",
      "architectures.MultiTaskResEncUNet.MultiTaskResEncUNet",
      "multitaskresencunet",
      "MultiTaskResEncUNet ",
      "" }

\* pydoc.locate: the object a dotted name stands for, None when there is none.
Locate(path) ==
    CASE path = "torch.nn.modules.conv.Conv3d" -> "class Conv3d"
      [] path = "torch.nn.modules.instancenorm.InstanceNorm3d" -> "class InstanceNorm3d"
      [] OTHER -> "None"

\* arch_init_kwargs dictionaries, with and without the keys to import.
ArchInitKwargs ==
    { [conv_op |-> "torch.nn.modules.conv.Conv3d",
       norm_op |-> "torch.nn.modules.instancenorm.InstanceNorm3d", n_stages |-> "6"],
      [conv_op |-> "torch.nn.modules.conv.Conv3d", norm_op |-> "None", n_stages |-> "6"],
      [conv_op |-> "torch.nn.modules.conv.Conv9d", n_stages |-> "6"],
      [n_stages |-> "6"] }

\* arch_init_kwargs_req_import lists.
ReqImports == { <<>>, <<"conv_op">>, <<"conv_op", "norm_op">> }

\* Lines 69-72: the copy of arch_init_kwargs with every listed key that is not
\* None replaced by what pydoc.locate finds for it.
ImportedKwargs(arch_init_kwargs, arch_init_kwargs_req_import) ==
    LET listed == { arch_init_kwargs_req_import[i] : i \in DOMAIN arch_init_kwargs_req_import }
    IN [k \in DOMAIN arch_init_kwargs |->
            IF k \in listed /\ arch_init_kwargs[k] # "None"
            THEN Locate(arch_init_kwargs[k])
            ELSE arch_init_kwargs[k]]

\* architecture_kwargs[ri] of a key the dictionary does not have.
KwargsKeyError(arch_init_kwargs, arch_init_kwargs_req_import) ==
    \E i \in DOMAIN arch_init_kwargs_req_import :
        arch_init_kwargs_req_import[i] \notin DOMAIN arch_init_kwargs

\* What one call of build_network_architecture does.
BuildOutcome(args) ==
    LET found == network_class(args.architecture_class_name)
    IN IF KwargsKeyError(args.arch_init_kwargs, args.arch_init_kwargs_req_import)
       THEN [raised |-> "KeyError", network |-> <<>>]
       ELSE IF found = <<>>
       THEN [raised |-> "ValueError", network |-> <<>>]
       ELSE [raised |-> "",
             network |-> <<[class |-> found[1],
                            input_channels |-> args.num_input_channels,
                            num_classes |-> args.num_output_channels,
                            kwargs |-> ImportedKwargs(args.arch_init_kwargs,
                                                      args.arch_init_kwargs_req_import),
                            initialized |-> args.has_initialize]>>]

BuildArguments ==
    [architecture_class_name : ArchitectureNames,
     arch_init_kwargs : ArchInitKwargs,
     arch_init_kwargs_req_import : ReqImports,
     num_input_channels : 1 .. MaxChannels,
     num_output_channels : 1 .. MaxChannels,
     has_initialize : BOOLEAN]

InitBuild ==
    /\ is_ddp = FALSE
    /\ has_regions = FALSE
    /\ has_ignore = FALSE
    /\ current_epoch = [w \in Workers |-> 0]
    /\ epochs_left = [w \in Workers |-> 0]
    /\ InitWorkers({})
    /\ metric_in = NoMetrics
    /\ metric_out = NoMetrics
    /\ \E args \in BuildArguments : build_in = <<args>>
    /\ build_out = NoBuild

BuildNetworkArchitecture ==
    /\ build_in # <<>>
    /\ build_out = <<>>
    /\ build_out' = <<BuildOutcome(build_in[1])>>
    /\ UNCHANGED <<is_ddp, has_regions, has_ignore, current_epoch, loss_cls_weight, pc,
                   steps_left, epochs_left, optimizer_steps, train_returned, last_call,
                   val_data, val_outputs, pending, calls, acc, summary, metric_in,
                   metric_out, build_in>>

NextBuild == BuildNetworkArchitecture

SpecBuild == InitBuild /\ [][NextBuild]_vars

\* The fully qualified form of a bare class name.
Qualified(bare) == "nnunetv2.architectures.MultiTaskResEncUNet." \o bare

KnownVariants ==
    { "MultiTaskResEncUNet", "MultiTaskChannelAttentionResEncUNet",
      "MultiTaskEfficientAttentionResEncUNet" }

KnownNames == KnownVariants \cup { Qualified(bare) : bare \in KnownVariants }

----------------------------------------------------------------------------
(* The one-vs-rest classification counts. *)

\* Every class target of the batch is a class index.
ValidTargets(batch) ==
    \A i \in DOMAIN batch :
        batch[i].class_target \in 0 .. (Len(batch[i].cls_logits) - 1)

\* The counts partition cls_total samples; with valid targets the false
\* positives and the false negatives each add up to the wrong predictions.
CountsPartition(counts, valid) ==
    /\ \A c \in DOMAIN counts.cls_tp :
          counts.cls_tp[c] + counts.cls_fp[c] + counts.cls_fn[c] + counts.cls_tn[c]
              = counts.cls_total
    /\ SumSeq(counts.cls_tp) = counts.cls_correct
    /\ valid =>
          /\ SumSeq(counts.cls_fp) = counts.cls_total - counts.cls_correct
          /\ SumSeq(counts.cls_fn) = counts.cls_total - counts.cls_correct

\* C12: whenever validation_step computes classification metrics for a batch,
\* for every class c cls_tp[c] + cls_fp[c] + cls_fn[c] + cls_tn[c] = cls_total,
\* the cls_tp add up to cls_correct, and, when every target is a valid class
\* index, the cls_fp and the cls_fn each add up to cls_total - cls_correct;
\* the same holds of the sums over the steps that on_validation_epoch_end
\* takes.
C12_CountsPartitionTheBatch ==
    \A w \in Workers :
        /\ \A i \in DOMAIN val_outputs[w] :
              "cls_tp" \in DOMAIN val_outputs[w][i] =>
                  CountsPartition(val_outputs[w][i], ValidTargets(val_data[w][i]))
        /\ (pending[w] # <<>> /\ "cls_tp" \in DOMAIN pending[w][1]) =>
              CountsPartition(pending[w][1], ValidTargets(val_data[w][Len(val_data[w])]))
        /\ (acc[w] # NoAcc /\ HasClsCounts(acc[w].collated)) =>
              CountsPartition(ClsAggregate(acc[w].collated),
                              \A i \in DOMAIN val_data[w] : ValidTargets(val_data[w][i]))

\* Two steps with valid targets, three samples, one of them classified
\* correctly, have been summed and the summary has been returned.
C12_Witness ==
    /\ Returned(0)
    /\ Len(val_outputs[0]) = 2
    /\ \A i \in DOMAIN val_data[0] : ValidTargets(val_data[0][i])
    /\ HasClsCounts(acc[0].collated)
    /\ ClsAggregate(acc[0].collated).cls_total = 3
    /\ ClsAggregate(acc[0].collated).cls_correct = 1
    /\ SumSeq(ClsAggregate(acc[0].collated).cls_fn) = 2
    /\ "cls_accuracy" \in DOMAIN summary[0][1]

\* A target that is no class index is in no cls_fn: the false negatives fall
\* short of the wrong predictions.
InvalidTargetCounted ==
    \E i \in DOMAIN val_outputs[0] :
        /\ "cls_tp" \in DOMAIN val_outputs[0][i]
        /\ ~ValidTargets(val_data[0][i])
        /\ SumSeq(val_outputs[0][i].cls_fn) < val_outputs[0][i].cls_total - val_outputs[0][i].cls_correct

====
